---- MODULE Spec2Model ----
(***************************************************************************)
(* Diamond Notes generator: the note-generation functions and the HTTP     *)
(* routes of server/routes.ts, the request schema of shared/schema.ts and  *)
(* the in-memory request log MemStorage.                                   *)
(*                                                                         *)
(* Text is modelled by TLA+ strings, one character per UTF-16 code unit.   *)
(* A module cannot contain Devanagari, so                                  *)
(*   - each Devanagari code point that occurs in a subject keyword is      *)
(*     written as one reserved ASCII symbol (table Deva); none of these    *)
(*     symbols is a letter, so toLowerCase leaves them alone, as it does   *)
(*     the code points they stand for;                                     *)
(*   - the Hindi template literal on line N of routes.ts is written        *)
(*     "hi:LN" (with a, b, c for the pieces around interpolations).        *)
(* An optional value (a field that may be undefined) is a sequence of      *)
(* length 0 or 1: None or Some(v).                                         *)
(***************************************************************************)
EXTENDS Integers, Sequences, FiniteSets, TLC

VARIABLES
    notesRequests,  \* MemStorage.notesRequests: the Map's entries in insertion order
    uuids,          \* number of identifiers randomUUID() has handed out
    now,            \* the clock read by new Date(), in milliseconds
    requests,       \* POST /api/generate-notes requests: each one's body, position and data
    lastRead,       \* the response of the latest GET route call
    args,           \* arguments of a direct call of generateDiamondNotes
    notes,          \* the value that call returned
    dashboard,      \* the Dashboard component: its state, its form and its mutation
    fileUpload      \* the FileUpload component inside the Dashboard

vars == << notesRequests, uuids, now, requests, lastRead, args, notes, dashboard,
          fileUpload >>

None == << >>
Some(v) == << v >>

Min(a, b) == IF a < b THEN a ELSE b

(***************************************************************************)
(* Strings                                                                 *)
(***************************************************************************)

\* Devanagari code points of the subject keywords (routes.ts 73, 99-100,
\* 127-128, 217), each as one reserved ASCII symbol.
Deva ==
    [ ga |-> "!", nna |-> "#", signI |-> "$", ta |-> "%", va |-> "&",
      ja |-> "(", virama |-> ")", nya |-> "*", signAa |-> "+", na |-> "/",
      bha |-> ";", signAu |-> "<", ka |-> "=", signIi |-> ">", ra |-> "?",
      sa |-> "@", ya |-> "[", letterI |-> "]", ha |-> "^", signUu |-> "_",
      signO |-> ",", la |-> "{", letterA |-> "|", tha |-> "}", sha |-> "~" ]

kwGanit == Deva.ga \o Deva.nna \o Deva.signI \o Deva.ta
kwVigyan ==
    Deva.va \o Deva.signI \o Deva.ja \o Deva.virama \o Deva.nya \o Deva.signAa \o Deva.na
kwBhautiki == Deva.bha \o Deva.signAu \o Deva.ta \o Deva.signI \o Deva.ka \o Deva.signIi
kwRasayan == Deva.ra \o Deva.sa \o Deva.signAa \o Deva.ya \o Deva.na
kwJeevVigyan == Deva.ja \o Deva.signIi \o Deva.va \o kwVigyan
kwItihas == Deva.letterI \o Deva.ta \o Deva.signI \o Deva.ha \o Deva.signAa \o Deva.sa
kwBhugol == Deva.bha \o Deva.signUu \o Deva.ga \o Deva.signO \o Deva.la
kwRajniti ==
    Deva.ra \o Deva.signAa \o Deva.ja \o Deva.na \o Deva.signIi \o Deva.ta \o Deva.signI
kwArthashastra ==
    Deva.letterA \o Deva.ra \o Deva.virama \o Deva.tha \o Deva.sha \o Deva.signAa
        \o Deva.sa \o Deva.virama \o Deva.ta \o Deva.virama \o Deva.ra

UpperLetters == "ABCDEFGHIJKLMNOPQRSTUVWXYZ"
LowerLetters == "abcdefghijklmnopqrstuvwxyz"

\* The upper-case letters, each with its lower-case form.
lowerCaseOf ==
    [ c \in { SubSeq(UpperLetters, i, i) : i \in 1..Len(UpperLetters) } |->
        LET i == CHOOSE j \in 1..Len(UpperLetters) : SubSeq(UpperLetters, j, j) = c
        IN SubSeq(LowerLetters, i, i) ]

\* String.prototype.toLowerCase on one code unit.
lowerChar(c) == IF c \in DOMAIN lowerCaseOf THEN lowerCaseOf[c] ELSE c

\* String.prototype.toLowerCase.
RECURSIVE toLowerCase(_)
toLowerCase(s) ==
    IF Len(s) = 0 THEN ""
    ELSE lowerChar(SubSeq(s, 1, 1)) \o toLowerCase(SubSeq(s, 2, Len(s)))

\* String.prototype.includes: k occurs in s as a contiguous substring.
includes(s, k) ==
    \E i \in 1..(Len(s) - Len(k) + 1) : SubSeq(s, i, i + Len(k) - 1) = k

(***************************************************************************)
(* generateSubjectSpecificHeadings                                         *)
(***************************************************************************)

Heading(n, t, bps) == [number |-> n, title |-> t, bulletPoints |-> bps]

\* The conditional expression with its English arm taken always.
Pick_English(isHindi, hi, en) == en

\* The conditional expression  isHindi ? hi : en.
Pick(isHindi, hi, en) == IF isHindi THEN hi ELSE en

\* The introduction heading without its last bullet point.
IntroductionHeading_ThreeBullets(subject, chapterTitle, className, isHindi) ==
    Heading(1,
        Pick(isHindi, "hi:L55 - " \o chapterTitle, "Introduction to " \o chapterTitle),
        << Pick(isHindi, chapterTitle \o " hi:L58",
                "Fundamental concepts and definitions of " \o chapterTitle),
           Pick(isHindi, "hi:L61", "Historical context and background of this topic"),
           Pick(isHindi,
                "hi:L64a " \o className \o " hi:L64b " \o subject \o " hi:L64c",
                "Importance in Class " \o className \o " " \o subject \o " curriculum") >>)

\* routes.ts 53-70: the introduction heading, pushed for every subject.
IntroductionHeading(subject, chapterTitle, className, isHindi) ==
    Heading(1,
        Pick(isHindi, "hi:L55 - " \o chapterTitle, "Introduction to " \o chapterTitle),
        << Pick(isHindi, chapterTitle \o " hi:L58",
                "Fundamental concepts and definitions of " \o chapterTitle),
           Pick(isHindi, "hi:L61", "Historical context and background of this topic"),
           Pick(isHindi,
                "hi:L64a " \o className \o " hi:L64b " \o subject \o " hi:L64c",
                "Importance in Class " \o className \o " " \o subject \o " curriculum"),
           Pick(isHindi, "hi:L67", "Connection and relevance with other subjects") >>)

\* routes.ts 74-96: the two headings pushed in the mathematics branch.
MathematicsHeadings(isHindi) ==
    << Heading(2, Pick(isHindi, "hi:L76", "Key Formulas and Principles"),
            << Pick(isHindi, "hi:L78", "Important formulas of this chapter and their applications"),
               Pick(isHindi, "hi:L79", "Detailed explanation of mathematical principles"),
               Pick(isHindi, "hi:L80", "Problem-solving techniques and methods"),
               Pick(isHindi, "hi:L81", "Derivation and proof of formulas"),
               Pick(isHindi, "hi:L82", "Practical applications in real life") >>),
       Heading(3, Pick(isHindi, "hi:L88", "Examples and Practice"),
            << Pick(isHindi, "hi:L90", "Solved examples of different types of questions"),
               Pick(isHindi, "hi:L91", "Step-by-step solution methods"),
               Pick(isHindi, "hi:L92", "Common mistakes and ways to avoid them"),
               Pick(isHindi, "hi:L93", "Important questions for practice"),
               Pick(isHindi, "hi:L94", "Important exam tips and tricks") >>) >>

\* routes.ts 102-124: the two headings pushed in the science branch.
ScienceHeadings(isHindi) ==
    << Heading(2, Pick(isHindi, "hi:L104", "Scientific Principles and Laws"),
            << Pick(isHindi, "hi:L106", "Main scientific principles of this chapter"),
               Pick(isHindi, "hi:L107", "Detailed explanation of natural laws"),
               Pick(isHindi, "hi:L108", "Conclusions based on experiments and observations"),
               Pick(isHindi, "hi:L109", "Logic behind scientific facts"),
               Pick(isHindi, "hi:L110", "Examples of these principles in daily life") >>),
       Heading(3, Pick(isHindi, "hi:L116", "Experiments and Activities"),
            << Pick(isHindi, "hi:L118", "Important experiments related to this chapter"),
               Pick(isHindi, "hi:L119", "Experimental methods and required materials"),
               Pick(isHindi, "hi:L120", "Results from experiments and their analysis"),
               Pick(isHindi, "hi:L121", "Safety measures and precautions"),
               Pick(isHindi, "hi:L122", "Simple experiments that can be done at home") >>) >>

\* routes.ts 130-152: the two headings pushed in the history/geography branch.
SocialStudiesHeadings(isHindi) ==
    << Heading(2, Pick(isHindi, "hi:L132", "Historical Facts and Events"),
            << Pick(isHindi, "hi:L134", "Chronology of important historical events"),
               Pick(isHindi, "hi:L135", "Contribution and role of key personalities"),
               Pick(isHindi, "hi:L136", "Social, political and economic factors"),
               Pick(isHindi, "hi:L137", "Causes and consequences of events"),
               Pick(isHindi, "hi:L138", "Impact on contemporary society") >>),
       Heading(3, Pick(isHindi, "hi:L144", "Analysis and Significance"),
            << Pick(isHindi, "hi:L146", "In-depth analysis and comparative study of events"),
               Pick(isHindi, "hi:L147", "Relevance in today's context"),
               Pick(isHindi, "hi:L148", "Lessons and learning from history"),
               Pick(isHindi, "hi:L149", "Guidelines for the future"),
               Pick(isHindi, "hi:L150", "Understanding the topic from different perspectives") >>) >>

\* routes.ts 155-177: the two headings pushed in the default branch.
OtherHeadings(isHindi) ==
    << Heading(2, Pick(isHindi, "hi:L157", "Main Content and Concepts"),
            << Pick(isHindi, "hi:L159", "Detailed description of the main content of this chapter"),
               Pick(isHindi, "hi:L160", "Clear explanation of important concepts"),
               Pick(isHindi, "hi:L161", "In-depth study of various aspects of the topic"),
               Pick(isHindi, "hi:L162", "Compilation of related facts and data"),
               Pick(isHindi, "hi:L163", "Examples for comprehensive understanding of the topic") >>),
       Heading(3, Pick(isHindi, "hi:L169", "Practical Applications"),
            << Pick(isHindi, "hi:L171", "Use of this topic in daily life"),
               Pick(isHindi, "hi:L172", "Connection with contemporary events"),
               Pick(isHindi, "hi:L173", "Future possibilities and directions"),
               Pick(isHindi, "hi:L174", "Its utility in professional fields"),
               Pick(isHindi, "hi:L175", "Its contribution to societal development") >>) >>

\* routes.ts 181-191: the closing heading, pushed for every subject.
ImportantPointsHeading(isHindi) ==
    Heading(4, Pick(isHindi, "hi:L183", "Important Points and Facts"),
        << Pick(isHindi, "hi:L185", "Important facts to remember"),
           Pick(isHindi, "hi:L186", "Important questions from exam perspective"),
           Pick(isHindi, "hi:L187", "Common confusions and their clarifications"),
           Pick(isHindi, "hi:L188", "Additional information and detailed facts"),
           Pick(isHindi, "hi:L189", "Connection with other related chapters") >>)

\* routes.ts 73: the condition of the mathematics branch.
isMathematicsSubject(subject) ==
    \/ includes(toLowerCase(subject), "mathematics")
    \/ includes(toLowerCase(subject), kwGanit)

\* The science condition without its 'chemistry' test.
isScienceSubject_NoChemistry(subject) ==
    \/ includes(toLowerCase(subject), "science")
    \/ includes(toLowerCase(subject), "physics")
    \/ includes(toLowerCase(subject), "biology")
    \/ includes(toLowerCase(subject), kwVigyan)
    \/ includes(toLowerCase(subject), kwBhautiki)
    \/ includes(toLowerCase(subject), kwRasayan)
    \/ includes(toLowerCase(subject), kwJeevVigyan)

\* routes.ts 97-100: the condition of the science branch.
isScienceSubject(subject) ==
    \/ includes(toLowerCase(subject), "science")
    \/ includes(toLowerCase(subject), "physics")
    \/ includes(toLowerCase(subject), "chemistry")
    \/ includes(toLowerCase(subject), "biology")
    \/ includes(toLowerCase(subject), kwVigyan)
    \/ includes(toLowerCase(subject), kwBhautiki)
    \/ includes(toLowerCase(subject), kwRasayan)
    \/ includes(toLowerCase(subject), kwJeevVigyan)

\* routes.ts 125-128: the condition of the history/geography branch.
isSocialStudiesSubject(subject) ==
    \/ includes(toLowerCase(subject), "history")
    \/ includes(toLowerCase(subject), "geography")
    \/ includes(toLowerCase(subject), "political")
    \/ includes(toLowerCase(subject), "economics")
    \/ includes(toLowerCase(subject), kwItihas)
    \/ includes(toLowerCase(subject), kwBhugol)
    \/ includes(toLowerCase(subject), kwRajniti)
    \/ includes(toLowerCase(subject), kwArthashastra)

\* The chain with the science branch tested before the mathematics branch.
subjectHeadings_ScienceFirst(subject, isHindi) ==
    IF isScienceSubject(subject) THEN ScienceHeadings(isHindi)
    ELSE IF isMathematicsSubject(subject) THEN MathematicsHeadings(isHindi)
    ELSE IF isSocialStudiesSubject(subject) THEN SocialStudiesHeadings(isHindi)
    ELSE OtherHeadings(isHindi)

\* routes.ts 72-178: the if / else-if chain choosing the two middle headings.
subjectHeadings(subject, isHindi) ==
    IF isMathematicsSubject(subject) THEN MathematicsHeadings(isHindi)
    ELSE IF isScienceSubject(subject) THEN ScienceHeadings(isHindi)
    ELSE IF isSocialStudiesSubject(subject) THEN SocialStudiesHeadings(isHindi)
    ELSE OtherHeadings(isHindi)

\* The assembler without its closing push.
generateSubjectSpecificHeadings_NoLast(subject, chapterTitle, className, language) ==
    LET isHindi == language = "hindi"
    IN << IntroductionHeading(subject, chapterTitle, className, isHindi) >>
           \o subjectHeadings(subject, isHindi)

\* routes.ts 48-194.
generateSubjectSpecificHeadings(subject, chapterTitle, className, language) ==
    LET isHindi == language = "hindi"
    IN << IntroductionHeading(subject, chapterTitle, className, isHindi) >>
           \o subjectHeadings(subject, isHindi)
           \o << ImportantPointsHeading(isHindi) >>

(***************************************************************************)
(* generateConclusion, generateKeywords, generateDiamondNotes              *)
(***************************************************************************)

\* A conclusion that is written for Hindi only and is empty otherwise.
generateConclusion_HindiOnly(chapterTitle, subject, className, language) ==
    IF language = "hindi"
    THEN chapterTitle \o " hi:L198a " \o className \o " hi:L198b " \o subject
            \o " hi:L198c"
    ELSE ""

\* routes.ts 196-202.
generateConclusion(chapterTitle, subject, className, language) ==
    IF language = "hindi"
    THEN chapterTitle \o " hi:L198a " \o className \o " hi:L198b " \o subject
            \o " hi:L198c"
    ELSE chapterTitle \o " is a crucial chapter in Class " \o className \o " "
            \o subject \o " curriculum. The knowledge provided in this chapter is not only important from an examination perspective but also highly useful in practical life. Understanding these concepts provides a strong foundation for further studies and future challenges. Through regular practice and thorough study, mastery in this subject can be achieved. This chapter connects various aspects of the subject and helps in developing a comprehensive understanding of the field."

\* The basic keywords with the bare class name in place of "Class <name>".
basicKeywords_BareClass(chapterTitle, subject, className) ==
    << chapterTitle, subject, className, "NCERT", "Education", "Study Notes",
       "Diamond Notes" >>

\* routes.ts 205-213.
basicKeywords(chapterTitle, subject, className) ==
    << chapterTitle, subject, "Class " \o className, "NCERT", "Education",
       "Study Notes", "Diamond Notes" >>

\* routes.ts 216-225: the terms pushed after the basic keywords.
subjectKeywords(subject) ==
    LET subjectLower == toLowerCase(subject)
    IN IF includes(subjectLower, "mathematics") \/ includes(subjectLower, kwGanit)
       THEN << "Formula", "Calculation", "Problem Solving", "Mathematical Concepts" >>
       ELSE IF \/ includes(subjectLower, "science")
               \/ includes(subjectLower, "physics")
               \/ includes(subjectLower, "chemistry")
               \/ includes(subjectLower, "biology")
       THEN << "Scientific Method", "Experiments", "Natural Laws",
               "Scientific Principles" >>
       ELSE IF \/ includes(subjectLower, "history")
               \/ includes(subjectLower, "geography")
               \/ includes(subjectLower, "political")
               \/ includes(subjectLower, "economics")
       THEN << "Historical Events", "Social Studies", "Cultural Heritage",
               "Contemporary Issues" >>
       ELSE << >>

generateKeywords(chapterTitle, subject, className) ==
    basicKeywords(chapterTitle, subject, className) \o subjectKeywords(subject)

\* A placeholder title that counts the records written so far.
chapterTitleOf_Counted(chapterName) ==
    IF chapterName = None \/ chapterName = Some("")
    THEN (IF uuids = 0 THEN "Chapter from PDF" ELSE "Chapter from PDF (next)")
    ELSE chapterName[1]

\* chapterName || "Chapter from PDF": undefined and "" are both falsy.
chapterTitleOf(chapterName) ==
    IF chapterName = None \/ chapterName = Some("") THEN "Chapter from PDF"
    ELSE chapterName[1]

\* A generator that titles the document by the uploaded content when it has no
\* chapter name.
generateDiamondNotes_ReadsPdf(className, subject, chapterName, pdfContent, language) ==
    LET chapterTitle == IF chapterName = None \/ chapterName = Some("")
                        THEN (IF pdfContent = None THEN "Chapter from PDF"
                              ELSE "Chapter from " \o pdfContent[1])
                        ELSE chapterName[1]
    IN [ chapterTitle |->
             IF language = "hindi" THEN "hi:L39: " \o chapterTitle ELSE chapterTitle,
         headings |->
             generateSubjectSpecificHeadings(subject, chapterTitle, className, language),
         conclusion |-> generateConclusion(chapterTitle, subject, className, language),
         keywords |-> generateKeywords(chapterTitle, subject, className) ]

\* pdfContent is a parameter the function never reads.
generateDiamondNotes(className, subject, chapterName, pdfContent, language) ==
    LET chapterTitle == chapterTitleOf(chapterName)
    IN [ chapterTitle |->
             IF language = "hindi" THEN "hi:L39: " \o chapterTitle ELSE chapterTitle,
         headings |->
             generateSubjectSpecificHeadings(subject, chapterTitle, className, language),
         conclusion |-> generateConclusion(chapterTitle, subject, className, language),
         keywords |-> generateKeywords(chapterTitle, subject, className) ]

(***************************************************************************)
(* MemStorage (the request log)                                            *)
(***************************************************************************)

\* A generator that returns the same value on every call.
randomUUID_Repeats(issued) == 1

\* randomUUID(): a value no earlier call has returned, named by its order of issue.
randomUUID(issued) == issued + 1

\* Map.prototype.set on the entries kept in insertion order: a present key keeps
\* its position and takes the new value, a new key goes to the end.
mapSet(entries, id, value) ==
    IF \E i \in 1..Len(entries) : entries[i].id = id
    THEN [i \in 1..Len(entries) |-> IF entries[i].id = id THEN value ELSE entries[i]]
    ELSE Append(entries, value)

\* A lookup that ignores the key and gives the first entry.
mapGet_First(entries, id) ==
    IF Len(entries) > 0 THEN Some(entries[1]) ELSE None

\* Map.prototype.get: Some(value) or None for undefined.
mapGet(entries, id) ==
    IF \E i \in 1..Len(entries) : entries[i].id = id
    THEN Some(entries[CHOOSE i \in 1..Len(entries) : entries[i].id = id])
    ELSE None

\* v || null for an optional string: undefined and "" both give null (None).
orNull(v) == IF v = None \/ v = Some("") THEN None ELSE v

\* The NotesRequest object createNotesRequest builds (lines 202-210).
newNotesRequest(id, request, date) ==
    [ id |-> id,
      className |-> request.className,
      subject |-> request.subject,
      chapterName |-> orNull(request.chapterName),
      language |-> request.language,
      generatedNotes |-> request.generatedNotes,
      createdAt |-> date ]

\* The sort comparator's key: createdAt?.getTime() || 0.
timeOf(r) == IF r.createdAt = 0 THEN 0 ELSE r.createdAt

\* Array.prototype.sort with (a, b) => time(b) - time(a): stable, so each element
\* goes after every element already placed whose time is not smaller.
insertByTimeDesc(sorted, r) ==
    LET before == { i \in 1..Len(sorted) : timeOf(sorted[i]) >= timeOf(r) }
        k == IF before = {} THEN 0 ELSE CHOOSE i \in before : \A j \in before : j <= i
    IN SubSeq(sorted, 1, k) \o << r >> \o SubSeq(sorted, k + 1, Len(sorted))

RECURSIVE sortByTimeDesc(_)
sortByTimeDesc(s) ==
    IF Len(s) = 0 THEN << >>
    ELSE insertByTimeDesc(sortByTimeDesc(SubSeq(s, 1, Len(s) - 1)), s[Len(s)])

\* Array.prototype.slice(0, end).
slice0(s, end) ==
    LET e == IF end < 0 THEN (IF Len(s) + end < 0 THEN 0 ELSE Len(s) + end)
             ELSE Min(end, Len(s))
    IN SubSeq(s, 1, e)

getRecentNotesRequests(entries, limit) == slice0(sortByTimeDesc(entries), limit)

getNotesRequest(entries, id) == mapGet(entries, id)

(***************************************************************************)
(* shared/schema.ts and the upload middleware                              *)
(***************************************************************************)

Base64Alphabet == "ABCDEFGHIJKLMNOPQRSTUVWXYZabcdefghijklmnopqrstuvwxyz0123456789+/"

base64Char(n) == SubSeq(Base64Alphabet, n + 1, n + 1)

\* Buffer.prototype.toString('base64') on a sequence of bytes.
RECURSIVE base64(_)
base64(b) ==
    IF Len(b) = 0 THEN ""
    ELSE IF Len(b) = 1
    THEN base64Char(b[1] \div 4) \o base64Char((b[1] % 4) * 16) \o "=="
    ELSE IF Len(b) = 2
    THEN base64Char(b[1] \div 4) \o base64Char((b[1] % 4) * 16 + b[2] \div 16)
            \o base64Char((b[2] % 16) * 4) \o "="
    ELSE base64Char(b[1] \div 4) \o base64Char((b[1] % 4) * 16 + b[2] \div 16)
            \o base64Char((b[2] % 16) * 4 + b[3] \div 64) \o base64Char(b[3] % 64)
            \o base64(SubSeq(b, 4, Len(b)))

\* multer's fileFilter (routes.ts 14-20): only application/pdf passes.
fileFilter(file) == file.mimetype = "application/pdf"

\* z.string().min(1) on an optional string.
isNonEmptyString(v) == v # None /\ Len(v[1]) >= 1

\* z.enum(["english", "hindi"]).
isLanguage(v) == v \in { Some("english"), Some("hindi") }

\* generateNotesSchema.parse: Some(the parsed object) or None when it throws a
\* ZodError. chapterName and pdfContent are optional strings and stay optional.
parseGenerateNotes(requestData) ==
    IF /\ isNonEmptyString(requestData.className)
       /\ isNonEmptyString(requestData.subject)
       /\ isLanguage(requestData.language)
    THEN Some([ className |-> requestData.className[1],
                subject |-> requestData.subject[1],
                chapterName |-> requestData.chapterName,
                language |-> requestData.language[1],
                pdfContent |-> requestData.pdfContent ])
    ELSE None

\* !v for an optional string: undefined and "" are falsy.
falsy(v) == v = None \/ v = Some("")

(***************************************************************************)
(* Client: lib/subjects.ts, the FileUpload component, the Dashboard form   *)
(***************************************************************************)

\* subjects.ts 1-28.
subjectMapping ==
    [ classes1to8 |-> << "Mathematics", "English", "Hindi", "Bengali", "Science",
                         "Social Science" >>,
      classes9to10 |-> << "Mathematics", "English", "Hindi", "Bengali", "Physics",
                          "Chemistry", "Biology", "History", "Geography",
                          "Political Science", "Economics" >>,
      classes11to12 |->
        [ Science |-> << "Mathematics", "Physics", "Chemistry", "Biology" >>,
          Commerce |-> << "Economics", "Business Studies", "Accountancy",
                          "Mathematics" >>,
          Arts |-> << "History", "Geography", "Political Science", "Economics",
                      "Sociology", "Philosophy", "Psychology", "Social Science" >> ] ]

\* [...new Set(s)]: the elements of s in the order of their first occurrence.
RECURSIVE spreadOfSet(_)
spreadOfSet(s) ==
    IF Len(s) = 0 THEN << >>
    ELSE LET front == spreadOfSet(SubSeq(s, 1, Len(s) - 1))
         IN IF \E i \in 1..Len(front) : front[i] = s[Len(s)]
            THEN front
            ELSE Append(front, s[Len(s)])

\* subjects.ts 30-46.
getSubjectsForClass(classNumber) ==
    IF classNumber >= 1 /\ classNumber <= 8 THEN subjectMapping.classes1to8
    ELSE IF classNumber >= 9 /\ classNumber <= 10 THEN subjectMapping.classes9to10
    ELSE IF classNumber >= 11 /\ classNumber <= 12
    THEN spreadOfSet(subjectMapping.classes11to12.Science
                        \o subjectMapping.classes11to12.Commerce
                        \o subjectMapping.classes11to12.Arts)
    ELSE << >>

DecimalDigits == "0123456789"

digitValue(c) == (CHOOSE i \in 1..Len(DecimalDigits) : SubSeq(DecimalDigits, i, i) = c) - 1

\* parseInt on a decimal numeral, which is what the class Select's values are
\* (num.toString(), part_000 190-191).
RECURSIVE parseInt(_)
parseInt(s) ==
    IF Len(s) = 1 THEN digitValue(s)
    ELSE 10 * parseInt(SubSeq(s, 1, Len(s) - 1)) + digitValue(SubSeq(s, Len(s), Len(s)))

\* String.prototype.trim for the white space a text input can hold.
RECURSIVE trimStart(_)
trimStart(s) ==
    IF Len(s) > 0 /\ SubSeq(s, 1, 1) = " " THEN trimStart(SubSeq(s, 2, Len(s))) ELSE s

RECURSIVE trimEnd(_)
trimEnd(s) ==
    IF Len(s) > 0 /\ SubSeq(s, Len(s), Len(s)) = " "
    THEN trimEnd(SubSeq(s, 1, Len(s) - 1))
    ELSE s

trim(s) == trimEnd(trimStart(s))

\* FileUpload's default maxSize (schema.ts 75): 50 * 1024 * 1024.
maxSize == 52428800

\* The File objects a user can offer: below, at and above maxSize.
SmallFile == [name |-> "chapter.pdf", size |-> 1024]
LimitFile == [name |-> "limit.pdf", size |-> maxSize]
LargeFile == [name |-> "large.pdf", size |-> maxSize + 1]
Files == { SmallFile, LimitFile, LargeFile }

\* FileUpload after its first render (schema.ts 78-80), with the calls of the
\* onFileSelect prop and of alert counted.
InitialFileUpload ==
    [ selectedFile |-> None, isDragOver |-> FALSE,
      onFileSelectCalls |-> 0, onFileSelectArg |-> None, alerts |-> 0 ]

\* Dashboard after its first render (part_000 31-44): the component state, the form's
\* values and the request of the mutation in flight.
InitialDashboard ==
    [ selectedFile |-> None, subjects |-> << >>,
      className |-> "", subject |-> "", chapterName |-> "", language |-> "english",
      pending |-> None ]

(***************************************************************************)
(* Requests                                                                *)
(***************************************************************************)

MaxPosts == 2       \* POST requests in one behaviour (all may be in flight together)
MaxClock == 2       \* last clock value
MaxLimit == 3       \* largest limit passed to getRecentNotesRequests
MaxParts == 2       \* words in a generated subject

Slots == 1..MaxPosts

RecentLimit == 5    \* routes.ts 297: getRecentNotesRequests(5)

PdfFile == [mimetype |-> "application/pdf", buffer |-> << 37, 80, 68, 70 >>]
EmptyPdfFile == [mimetype |-> "application/pdf", buffer |-> << >>]
TextFile == [mimetype |-> "text/plain", buffer |-> << 104, 105 >>]

\* A request as the handler receives it: req.body's fields and req.file.
Body(className, subject, chapterName, language, pdfContent, file) ==
    [ className |-> className, subject |-> subject, chapterName |-> chapterName,
      language |-> language, pdfContent |-> pdfContent, file |-> file ]

\* The requests drawn when one request is followed through the handler.
AllBodies ==
    { Body(c, s, ch, l, p, f) :
        c \in { None, Some(""), Some("10"), Some("13") },
        s \in { None, Some(""), Some("Mathematics"), Some(kwVigyan) },
        ch \in { None, Some(""), Some("Linear Equations") },
        l \in { None, Some(""), Some("english"), Some("hindi"), Some("french") },
        p \in { None, Some(base64(PdfFile.buffer)) },
        f \in { None, Some(PdfFile), Some(EmptyPdfFile), Some(TextFile) } }

\* The requests drawn when several requests are served together.
ServerBodies ==
    { Body(Some("10"), Some("Mathematics"), Some("Linear Equations"), Some("english"),
           None, None),
      Body(Some("10"), Some(kwVigyan), None, None, None, Some(PdfFile)),
      Body(Some("10"), Some("Mathematics"), None, Some("hindi"), None, None) }

Idle == [pc |-> "idle", body |-> None, data |-> None, notes |-> None,
         notesRequest |-> None, reply |-> None]

Reply(status, message) == [status |-> status, message |-> message]

Init ==
    /\ notesRequests = << >>
    /\ uuids = 0
    /\ now = 1
    /\ requests = [r \in Slots |-> Idle]
    /\ lastRead = None
    /\ args = None
    /\ notes = None
    /\ dashboard = InitialDashboard
    /\ fileUpload = InitialFileUpload

\* routes.ts 237-247: the object handed to the schema.
requestDataOf(body) ==
    IF body.file # None
    THEN [ className |-> body.className,
           subject |-> body.subject,
           chapterName |-> body.chapterName,
           language |-> IF falsy(body.language) THEN Some("english") ELSE body.language,
           pdfContent |-> Some(base64(body.file[1].buffer)) ]
    ELSE [ className |-> body.className,
           subject |-> body.subject,
           chapterName |-> body.chapterName,
           language |-> body.language,
           pdfContent |-> body.pdfContent ]

\* The either-or check testing for undefined only, so that "" counts as given.
neitherGiven_UndefinedOnly(validatedData) ==
    validatedData.chapterName = None /\ validatedData.pdfContent = None

\* routes.ts 251: !validatedData.chapterName && !validatedData.pdfContent.
neitherGiven(validatedData) ==
    falsy(validatedData.chapterName) /\ falsy(validatedData.pdfContent)

\* A catch block without the ZodError branch.
catchReply_GenericOnly(isZodError) ==
    Reply(500, "Failed to generate notes. Please try again.")

\* The catch block of the handler (routes.ts 279-291): a ZodError is answered 400,
\* every other error 500 with the one message.
catchReply(isZodError) ==
    IF isZodError THEN Reply(400, "Validation error")
    ELSE Reply(500, "Failed to generate notes. Please try again.")

\* POST /api/generate-notes, from the upload middleware to the first await
\* (routes.ts 232-264): the upload filter, the schema, the either-or check and the
\* call of generateDiamondNotes, whose body runs to its end before it returns.
PostGenerateNotes(r, body) ==
    /\ requests[r].pc = "idle"
    /\ LET validated == parseGenerateNotes(requestDataOf(body))
           received == [Idle EXCEPT !.body = Some(body)]
       IN requests' = [requests EXCEPT ![r] =
            IF body.file # None /\ ~fileFilter(body.file[1])
            THEN [received EXCEPT !.pc = "done",
                              !.reply = Some(Reply(500, "Only PDF files are allowed"))]
            ELSE IF validated = None
            THEN [received EXCEPT !.pc = "done",
                              !.reply = Some(catchReply(TRUE))]
            ELSE IF neitherGiven(validated[1])
            THEN [received EXCEPT !.pc = "done",
                              !.reply = Some(Reply(400,
                                  "Either chapter name or PDF content is required"))]
            ELSE [received EXCEPT !.pc = "generated",
                              !.data = validated,
                              !.notes = Some(generateDiamondNotes(
                                  validated[1].className, validated[1].subject,
                                  validated[1].chapterName, validated[1].pdfContent,
                                  validated[1].language))]]
    /\ UNCHANGED << notesRequests, uuids, now, lastRead, args, notes, dashboard,
                 fileUpload >>

\* createNotesRequest keying every record by the same identifier.
createNotesRequest_FixedId(request) ==
    newNotesRequest(1, request, now)

\* MemStorage.createNotesRequest: the record stored and returned.
createNotesRequest(request) ==
    newNotesRequest(randomUUID(uuids), request, now)

\* A write that keeps the validated request's pdfContent in the record.
StoreNotes_RetainsContent(r) ==
    /\ requests[r].pc = "generated"
    /\ LET data == requests[r].data[1]
           notesRequest == [ id |-> randomUUID(uuids),
                             className |-> data.className,
                             subject |-> data.subject,
                             chapterName |-> orNull(data.chapterName),
                             language |-> data.language,
                             generatedNotes |-> requests[r].notes,
                             createdAt |-> now,
                             pdfContent |-> data.pdfContent ]
       IN /\ uuids' = randomUUID(uuids)
          /\ notesRequests' = mapSet(notesRequests, notesRequest.id, notesRequest)
          /\ requests' = [requests EXCEPT ![r].pc = "stored",
                                          ![r].notesRequest = Some(notesRequest)]
    /\ UNCHANGED << now, lastRead, args, notes, dashboard,
                 fileUpload >>

\* The handler resumes after generation and calls storage.createNotesRequest
\* (routes.ts 267-273), which runs to its end before the next await.
StoreNotes(r) ==
    /\ requests[r].pc = "generated"
    /\ LET data == requests[r].data[1]
           notesRequest == createNotesRequest(
               [ className |-> data.className, subject |-> data.subject,
                 chapterName |-> data.chapterName, language |-> data.language,
                 generatedNotes |-> requests[r].notes ])
       IN /\ uuids' = randomUUID(uuids)
          /\ notesRequests' = mapSet(notesRequests, notesRequest.id, notesRequest)
          /\ requests' = [requests EXCEPT ![r].pc = "stored",
                                          ![r].notesRequest = Some(notesRequest)]
    /\ UNCHANGED << now, lastRead, args, notes, dashboard,
                 fileUpload >>

\* The promise of storage.createNotesRequest rejects (the Map refuses the entry, or
\* another IStorage fails): nothing is stored and the catch block answers
\* (routes.ts 267, 279-291).
StoreNotesFails(r) ==
    /\ requests[r].pc = "generated"
    /\ requests' = [requests EXCEPT ![r].pc = "done",
                                    ![r].reply = Some(catchReply(FALSE))]
    /\ UNCHANGED << notesRequests, uuids, now, lastRead, args, notes, dashboard,
                 fileUpload >>

\* An answer that names the newest record of the log instead of the handler's own.
Respond_NewestRecord(r) ==
    /\ requests[r].pc = "stored"
    /\ requests' = [requests EXCEPT ![r].pc = "done",
            ![r].reply = Some([ status |-> 200,
                                id |-> notesRequests[Len(notesRequests)].id,
                                notes |-> requests[r].notes[1] ])]
    /\ UNCHANGED << notesRequests, uuids, now, lastRead, args, notes, dashboard,
                 fileUpload >>

\* The handler resumes after the write and answers (routes.ts 275-278).
Respond(r) ==
    /\ requests[r].pc = "stored"
    /\ requests' = [requests EXCEPT ![r].pc = "done",
            ![r].reply = Some([ status |-> 200,
                                id |-> requests[r].notesRequest[1].id,
                                notes |-> requests[r].notes[1] ])]
    /\ UNCHANGED << notesRequests, uuids, now, lastRead, args, notes, dashboard,
                 fileUpload >>

\* GET /api/recent-notes (routes.ts 295-305).
GetRecentNotes ==
    /\ lastRead' = Some([ route |-> "recent-notes", status |-> 200,
                          body |-> getRecentNotesRequests(notesRequests, RecentLimit) ])
    /\ UNCHANGED << notesRequests, uuids, now, requests, args, notes, dashboard,
                 fileUpload >>

\* A lookup that takes the record it returns out of the log.
GetNotes_Consumes(id) ==
    /\ LET notesRequest == getNotesRequest(notesRequests, id)
           keep(rec) == rec.id # id
       IN /\ lastRead' =
               IF notesRequest = None
               THEN Some([ route |-> "notes", id |-> id, status |-> 404,
                           body |-> Reply(404, "Notes not found") ])
               ELSE Some([ route |-> "notes", id |-> id, status |-> 200,
                           body |-> notesRequest[1] ])
          /\ notesRequests' = SelectSeq(notesRequests, keep)
    /\ UNCHANGED << uuids, now, requests, args, notes, dashboard,
                 fileUpload >>

\* GET /api/notes/:id (routes.ts 308-326).
GetNotes(id) ==
    /\ LET notesRequest == getNotesRequest(notesRequests, id)
       IN lastRead' =
            IF notesRequest = None
            THEN Some([ route |-> "notes", id |-> id, status |-> 404,
                        body |-> Reply(404, "Notes not found") ])
            ELSE Some([ route |-> "notes", id |-> id, status |-> 200,
                        body |-> notesRequest[1] ])
    /\ UNCHANGED << notesRequests, uuids, now, requests, args, notes, dashboard,
                 fileUpload >>

\* The clock advances by a millisecond.
Tick ==
    /\ now < MaxClock
    /\ now' = now + 1
    /\ UNCHANGED << notesRequests, uuids, requests, lastRead, args, notes, dashboard,
                 fileUpload >>

\* Identifiers a client may ask for: every one that can be issued and one more.
Ids == 1..(MaxPosts + 1)

Next ==
    \/ \E r \in Slots, body \in ServerBodies : PostGenerateNotes(r, body)
    \/ \E r \in Slots : StoreNotes(r)
    \/ \E r \in Slots : StoreNotesFails(r)
    \/ \E r \in Slots : Respond(r)
    \/ GetRecentNotes
    \/ \E id \in Ids : GetNotes(id)
    \/ Tick

Spec == Init /\ [][Next]_vars

\* One request, drawn from AllBodies, followed through the handler.
NextPost ==
    \/ \E body \in AllBodies : PostGenerateNotes(1, body)
    \/ StoreNotes(1)
    \/ StoreNotesFails(1)
    \/ Respond(1)

SpecPost == Init /\ [][NextPost]_vars

\* One request drawn from AllBodies served together with one drawn from
\* ServerBodies, in every interleaving of the two handlers.
NextLog ==
    \/ \E body \in AllBodies : PostGenerateNotes(1, body)
    \/ \E body \in ServerBodies : PostGenerateNotes(2, body)
    \/ \E r \in { 1, 2 } : StoreNotes(r)
    \/ \E r \in { 1, 2 } : StoreNotesFails(r)
    \/ \E r \in { 1, 2 } : Respond(r)

SpecLog == Init /\ [][NextLog]_vars

(***************************************************************************)
(* Direct calls of generateDiamondNotes                                    *)
(***************************************************************************)

SubjectWords ==
    { "Mathematics", "Maths", "Science", "Physics", "Chemistry", "CHEMISTRY",
      "cHeMiStRy", "Biology", "History", "Geography", "Political", "Economics",
      "English", kwGanit, kwVigyan, kwBhautiki, kwRasayan, kwJeevVigyan, kwItihas,
      kwBhugol, kwRajniti, kwArthashastra }

\* The subjects of at most n words, words separated by one space.
RECURSIVE SubjectsOf(_)
SubjectsOf(n) ==
    IF n = 0 THEN { "" }
    ELSE LET shorter == SubjectsOf(n - 1)
         IN shorter \cup { IF s = "" THEN w ELSE s \o " " \o w :
                             s \in shorter, w \in SubjectWords }

Subjects == SubjectsOf(MaxParts)
ChapterNames == { None, Some(""), Some("Linear Equations") }
ClassNames == { "7", "10" }
Languages == { "english", "hindi" }

InitGen ==
    /\ notesRequests = << >>
    /\ uuids = 0
    /\ now = 1
    /\ requests = [r \in Slots |-> Idle]
    /\ lastRead = None
    /\ args \in { Some([ className |-> c, subject |-> s, chapterName |-> ch,
                         language |-> l ]) :
                    c \in ClassNames, s \in Subjects, ch \in ChapterNames,
                    l \in Languages }
    /\ notes = None
    /\ dashboard = InitialDashboard
    /\ fileUpload = InitialFileUpload

\* The call generateDiamondNotes(className, subject, chapterName, undefined, language).
Generate ==
    /\ notes = None
    /\ notes' = Some(generateDiamondNotes(args[1].className, args[1].subject,
                                          args[1].chapterName, None, args[1].language))
    /\ UNCHANGED << notesRequests, uuids, now, requests, lastRead, args, dashboard,
                 fileUpload >>

NextGen == Generate

SpecGen == InitGen /\ [][NextGen]_vars

(***************************************************************************)
(* The Dashboard form and its FileUpload                                   *)
(***************************************************************************)

MaxCalls == 3       \* calls of the onFileSelect prop in one behaviour
MaxAlerts == 1      \* alerts shown in one behaviour
MaxPicks == 2       \* subjects the user picks from, counted from the end of the list

\* Values of the class Select ("1" to "12", part_000 190-194): one of each group of
\* getSubjectsForClass.
ClassOptions == { "8", "9", "12" }

\* Texts typed into the chapter input: nothing, blanks only, a chapter name.
ChapterTexts == { "", "  ", "Linear Equations" }

\* The radio group's values (part_000 313, 320).
LanguageOptions == { "english", "hindi" }

\* The items of the subject Select the user picks.
Offered(subjects) == { subjects[i] : i \in { j \in 1..Len(subjects) : j > Len(subjects) - MaxPicks } }

\* part_000 259: disabled={!!selectedFile} on the chapter input.
chapterInputDisabled == dashboard.selectedFile # None

\* part_000 290: disabled={!!chapterName?.trim()} on FileUpload.
disabled == trim(dashboard.chapterName) # ""

\* The effect on selectedClass that leaves the subject selected.
classEffect_KeepsSubject(d) ==
    IF d.className # ""
    THEN [d EXCEPT !.subjects = getSubjectsForClass(parseInt(d.className))]
    ELSE d

\* part_000 49-57: the effect that runs when selectedClass has changed.
classEffect(d) ==
    IF d.className # ""
    THEN [d EXCEPT !.subjects = getSubjectsForClass(parseInt(d.className)),
                   !.subject = ""]
    ELSE d

\* Dashboard's handler that leaves the chapter name as it is.
onFileSelect_KeepsChapter(d, file) == [d EXCEPT !.selectedFile = file]

\* Dashboard.handleFileSelect (part_000 124-130), passed to FileUpload as onFileSelect.
onFileSelect(d, file) ==
    [d EXCEPT !.selectedFile = file,
              !.chapterName = IF file # None THEN "" ELSE @]

\* FileUpload's handler without the size test.
handleFileSelect_NoLimit(u, d, file) ==
    [ fileUpload |-> [u EXCEPT !.selectedFile = file,
                               !.onFileSelectCalls = @ + 1,
                               !.onFileSelectArg = file],
      dashboard |-> onFileSelect(d, file) ]

\* FileUpload.handleFileSelect (schema.ts 83-91): the two components after the call.
handleFileSelect(u, d, file) ==
    IF file # None /\ file[1].size > maxSize
    THEN [ fileUpload |-> [u EXCEPT !.alerts = @ + 1], dashboard |-> d ]
    ELSE [ fileUpload |-> [u EXCEPT !.selectedFile = file,
                                    !.onFileSelectCalls = @ + 1,
                                    !.onFileSelectArg = file],
           dashboard |-> onFileSelect(d, file) ]

\* The counted calls stay within their bounds when file is handled.
WithinBounds(file) ==
    IF file # None /\ file[1].size > maxSize
    THEN fileUpload.alerts < MaxAlerts
    ELSE fileUpload.onFileSelectCalls < MaxCalls

server == << notesRequests, uuids, now, requests, lastRead, args, notes >>

\* The user picks a class other than the selected one: field.onChange, then the
\* effect on selectedClass (part_000 46-57, 184).
SelectClass(c) ==
    /\ c # dashboard.className
    /\ dashboard' = classEffect([dashboard EXCEPT !.className = c])
    /\ UNCHANGED << server, fileUpload >>

\* The user picks a subject (part_000 211-228); the Select is disabled without a class.
SelectSubject(s) ==
    /\ dashboard.className # ""
    /\ s \in Offered(dashboard.subjects)
    /\ dashboard' = [dashboard EXCEPT !.subject = s]
    /\ UNCHANGED << server, fileUpload >>

\* The user picks the output language (part_000 304-326).
SelectLanguage(l) ==
    /\ dashboard' = [dashboard EXCEPT !.language = l]
    /\ UNCHANGED << server, fileUpload >>

\* The user edits the chapter input (part_000 256-261), which takes no input while
\* disabled.
TypeChapter(text) ==
    /\ ~chapterInputDisabled
    /\ dashboard' = [dashboard EXCEPT !.chapterName = text]
    /\ UNCHANGED << server, fileUpload >>

\* handleInputChange (schema.ts 117-120): the file dialog closes with a file or with
\* none. A disabled input opens no dialog (schema.ts 138, 153).
InputChange(file) ==
    /\ ~disabled
    /\ WithinBounds(file)
    /\ LET after == handleFileSelect(fileUpload, dashboard, file)
       IN /\ fileUpload' = after.fileUpload
          /\ dashboard' = after.dashboard
    /\ UNCHANGED server

\* handleDragOver (schema.ts 93-98).
DragOver ==
    /\ fileUpload' = IF ~disabled THEN [fileUpload EXCEPT !.isDragOver = TRUE]
                     ELSE fileUpload
    /\ UNCHANGED << server, dashboard >>

\* handleDragLeave (schema.ts 100-103).
DragLeave ==
    /\ fileUpload' = [fileUpload EXCEPT !.isDragOver = FALSE]
    /\ UNCHANGED << server, dashboard >>

\* handleDrop (schema.ts 105-115): files is e.dataTransfer.files.
Drop(files) ==
    /\ (~disabled /\ Len(files) > 0) => WithinBounds(Some(files[1]))
    /\ LET left == [fileUpload EXCEPT !.isDragOver = FALSE]
           after == IF disabled \/ Len(files) = 0
                    THEN [ fileUpload |-> left, dashboard |-> dashboard ]
                    ELSE handleFileSelect(left, dashboard, Some(files[1]))
       IN /\ fileUpload' = after.fileUpload
          /\ dashboard' = after.dashboard
    /\ UNCHANGED server

\* clearFile (schema.ts 122-128), called by the Remove button, which is rendered
\* while a file is selected (schema.ts 156-176).
clearFile ==
    /\ fileUpload.selectedFile # None
    /\ fileUpload.onFileSelectCalls < MaxCalls
    /\ fileUpload' = [fileUpload EXCEPT !.selectedFile = None,
                                        !.onFileSelectCalls = @ + 1,
                                        !.onFileSelectArg = None]
    /\ dashboard' = onFileSelect(dashboard, None)
    /\ UNCHANGED server

\* The FormData mutationFn builds (part_000 68-79).
formDataOf(data, file) ==
    [ className |-> data.className,
      subject |-> data.subject,
      language |-> data.language,
      chapterName |-> IF data.chapterName # "" THEN Some(data.chapterName) ELSE None,
      pdf |-> file ]

\* zodResolver(generateNotesFormSchema) (part_000 21-26).
formIsValid(data) ==
    /\ Len(data.className) >= 1
    /\ Len(data.subject) >= 1
    /\ data.language \in { "english", "hindi" }

\* form.handleSubmit(onSubmit) (part_000 109-122, 173): the submit button is disabled
\* while a mutation is pending (part_000 337).
Submit ==
    /\ dashboard.pending = None
    /\ dashboard' =
         IF ~formIsValid(dashboard) THEN dashboard
         ELSE IF dashboard.chapterName = "" /\ dashboard.selectedFile = None
         THEN dashboard
         ELSE [dashboard EXCEPT
                 !.pending = Some(formDataOf(dashboard, dashboard.selectedFile))]
    /\ UNCHANGED << server, fileUpload >>

\* The request of the mutation is answered (part_000 81-107).
Settle ==
    /\ dashboard.pending # None
    /\ dashboard' = [dashboard EXCEPT !.pending = None]
    /\ UNCHANGED << server, fileUpload >>

NextForm ==
    \/ \E c \in ClassOptions : SelectClass(c)
    \/ \E s \in Offered(dashboard.subjects) : SelectSubject(s)
    \/ \E l \in LanguageOptions : SelectLanguage(l)
    \/ \E text \in ChapterTexts : TypeChapter(text)
    \/ \E file \in { None } \cup { Some(f) : f \in Files } : InputChange(file)
    \/ DragOver
    \/ DragLeave
    \/ \E files \in { << >> } \cup { << f >> : f \in Files } : Drop(files)
    \/ clearFile
    \/ Submit
    \/ Settle

SpecForm == Init /\ [][NextForm]_vars

(***************************************************************************)
(* Properties of the generated document (checked under SpecGen)            *)
(***************************************************************************)

Categories == { "Mathematics", "Science", "SocialStudies", "Other" }

\* The two middle headings of each category, as the assembler emits them.
CategoryHeadings(category, isHindi) ==
    CASE category = "Mathematics" -> MathematicsHeadings(isHindi)
      [] category = "Science" -> ScienceHeadings(isHindi)
      [] category = "SocialStudies" -> SocialStudiesHeadings(isHindi)
      [] category = "Other" -> OtherHeadings(isHindi)

\* The terms each category adds to the keyword list.
CategoryTerms(category) ==
    CASE category = "Mathematics" ->
            << "Formula", "Calculation", "Problem Solving", "Mathematical Concepts" >>
      [] category = "Science" ->
            << "Scientific Method", "Experiments", "Natural Laws",
               "Scientific Principles" >>
      [] category = "SocialStudies" ->
            << "Historical Events", "Social Studies", "Cultural Heritage",
               "Contemporary Issues" >>
      [] category = "Other" -> << >>

MathematicsKeywords == { "mathematics", kwGanit }
ScienceKeywords ==
    { "science", "physics", "chemistry", "biology", kwVigyan, kwBhautiki, kwRasayan,
      kwJeevVigyan }
SocialStudiesKeywords ==
    { "history", "geography", "political", "economics", kwItihas, kwBhugol, kwRajniti,
      kwArthashastra }
KnownKeywords == MathematicsKeywords \cup ScienceKeywords \cup SocialStudiesKeywords

\* The subject contains one of the keywords, in any letter case.
ContainsAny(subject, keywords) ==
    \E k \in keywords : includes(toLowerCase(subject), k)

Generated == args # None /\ notes # None

\* The categories whose headings are the middle headings of the generated document.
SectionCategories ==
    { c \in Categories :
        /\ Len(notes[1].headings) >= 3
        /\ SubSeq(notes[1].headings, 2, 3)
             = CategoryHeadings(c, args[1].language = "hindi") }

\* The categories whose terms are what the keyword list holds after its 7 basic entries.
KeywordCategories ==
    { c \in Categories :
        /\ Len(notes[1].keywords) >= 7
        /\ SubSeq(notes[1].keywords, 8, Len(notes[1].keywords)) = CategoryTerms(c) }

\* C1 as stated: every subject that contains "chemistry" in any letter case gets the
\* Science headings, and every subject that contains no known keyword gets the Other
\* headings.
C1_Original ==
    Generated =>
        /\ ContainsAny(args[1].subject, { "chemistry" }) => SectionCategories = { "Science" }
        /\ ~ContainsAny(args[1].subject, KnownKeywords) => SectionCategories = { "Other" }

\* C1 amended: every subject that contains "chemistry" in any letter case and no
\* Mathematics keyword gets the Science headings, and every subject that contains no
\* known keyword gets the Other headings.
C1_ChemistryIsScience ==
    Generated =>
        /\ ( /\ ContainsAny(args[1].subject, { "chemistry" })
             /\ ~ContainsAny(args[1].subject, MathematicsKeywords) )
           => SectionCategories = { "Science" }
        /\ ~ContainsAny(args[1].subject, KnownKeywords) => SectionCategories = { "Other" }

\* A mixed-case "chemistry" next to a SocialStudies keyword has been classified Science.
C1_Witness ==
    /\ Generated
    /\ args[1].subject = "cHeMiStRy History"
    /\ SectionCategories = { "Science" }

\* C2: every subject, the empty one included, gets the headings of exactly one
\* category: Mathematics if it contains a Mathematics keyword, else Science if it
\* contains a Science keyword, else SocialStudies if it contains a SocialStudies
\* keyword, else Other; "Political Science" gets Science.
C2_FirstCategoryWins ==
    Generated =>
        LET subject == args[1].subject
            expected ==
                IF ContainsAny(subject, MathematicsKeywords) THEN "Mathematics"
                ELSE IF ContainsAny(subject, ScienceKeywords) THEN "Science"
                ELSE IF ContainsAny(subject, SocialStudiesKeywords) THEN "SocialStudies"
                ELSE "Other"
        IN /\ Cardinality(SectionCategories) = 1
           /\ SectionCategories = { expected }
           /\ subject = "Political Science" => expected = "Science"
           /\ subject = "" => expected = "Other"

\* "Political Science" holds a SocialStudies and a Science keyword and was given Science.
C2_Witness ==
    /\ Generated
    /\ args[1].subject = "Political Science"
    /\ SectionCategories = { "Science" }

\* C3: every generated document has exactly 4 headings, numbered 1, 2, 3, 4 in output
\* order: the introduction, the two headings of one category, the important points.
C3_FourSections ==
    Generated =>
        LET hs == notes[1].headings
            isHindi == args[1].language = "hindi"
        IN /\ Len(hs) = 4
           /\ \A i \in 1..4 : hs[i].number = i
           /\ hs[1] = IntroductionHeading(args[1].subject,
                                          chapterTitleOf(args[1].chapterName),
                                          args[1].className, isHindi)
           /\ \E c \in Categories : SubSeq(hs, 2, 3) = CategoryHeadings(c, isHindi)
           /\ hs[4] = ImportantPointsHeading(isHindi)

\* A Hindi document for a SocialStudies subject without a chapter name was assembled.
C3_Witness ==
    /\ Generated
    /\ args[1].subject = kwItihas
    /\ args[1].language = "hindi"
    /\ args[1].chapterName = None
    /\ Len(notes[1].headings) = 4

\* C4: the terms appended to the keyword list are those of the category whose
\* headings the document has, for every subject.
C4_KeywordTermsMatchSections ==
    Generated =>
        \A c \in Categories : (c \in KeywordCategories) <=> (c \in SectionCategories)

\* C5: the keyword list holds the chapter title and the subject, starts with the 7
\* basic entries in order, and has 7 entries when the document's category is Other
\* and 11 otherwise.
C5_KeywordList ==
    Generated =>
        LET kw == notes[1].keywords
            title == chapterTitleOf(args[1].chapterName)
        IN /\ \E i \in 1..Len(kw) : kw[i] = title
           /\ \E i \in 1..Len(kw) : kw[i] = args[1].subject
           /\ Len(kw) >= 7
           /\ SubSeq(kw, 1, 7)
                = << title, args[1].subject, "Class " \o args[1].className, "NCERT",
                     "Education", "Study Notes", "Diamond Notes" >>
           /\ Len(kw) = IF SectionCategories = { "Other" } THEN 7 ELSE 11

(***************************************************************************)
(* Properties of the routes and the request log (Spec and SpecPost)        *)
(***************************************************************************)

\* The position of a record in the log, which is the order of the record calls.
CreationIndex(rec) == CHOOSE i \in 1..Len(notesRequests) : notesRequests[i] = rec

\* C6: after N record calls, listRecent(k) returns exactly min(N, k) entries, and of
\* two returned entries the one created later comes first, also when both were
\* created in the same clock tick.
C6_RecentMostRecentFirst ==
    \A k \in 0..MaxLimit :
        LET recent == getRecentNotesRequests(notesRequests, k)
        IN /\ Len(recent) = Min(uuids, k)
           /\ \A i, j \in 1..Len(recent) :
                i < j => CreationIndex(recent[i]) > CreationIndex(recent[j])

\* The request named neither a chapter nor a document.
BothAbsent(body) ==
    /\ body.chapterName \in { None, Some("") }
    /\ body.file = None
    /\ body.pdfContent = None

\* C7: a request with neither a chapter title nor a source document is answered 400
\* by the handler; no document is generated for it and the log gets no record.
C7_BothAbsentRejected ==
    \A r \in Slots :
        (requests[r].body # None /\ BothAbsent(requests[r].body[1])) =>
            /\ requests[r].pc = "done"
            /\ requests[r].reply[1].status = 400
            /\ requests[r].notes = None
            /\ requests[r].notesRequest = None
            /\ notesRequests = << >>

\* An otherwise valid request with neither was answered 400 by the either-or check.
C7_Witness ==
    /\ requests[1].body # None
    /\ BothAbsent(requests[1].body[1])
    /\ requests[1].body[1].className = Some("10")
    /\ requests[1].body[1].language = Some("hindi")
    /\ requests[1].reply
         = Some(Reply(400, "Either chapter name or PDF content is required"))
    /\ notesRequests = << >>

\* C8: a request whose language is not "english" or "hindi", or is missing, is
\* answered with an error whether or not it carries a file; no document is generated.
C8_UnsupportedLanguageFails ==
    \A r \in Slots :
        ( /\ requests[r].body # None
          /\ requests[r].body[1].language \notin { Some("english"), Some("hindi") } )
        => /\ requests[r].pc = "done"
           /\ requests[r].reply[1].status >= 400
           /\ requests[r].notes = None

\* The requests the handler accepted and whose record has been written.
Written == { r \in Slots : requests[r].notesRequest # None }

\* Every written request has exactly one record, holding its generated document, and
\* the log holds nothing else.
OneRecordEach ==
    /\ \A r \in Written :
         /\ requests[r].pc \in { "stored", "done" }
         /\ requests[r].notes # None
         /\ requests[r].notesRequest[1].generatedNotes = requests[r].notes
         /\ Cardinality({ i \in 1..Len(notesRequests) :
                            notesRequests[i].id = requests[r].notesRequest[1].id }) = 1
         /\ \E i \in 1..Len(notesRequests) : notesRequests[i] = requests[r].notesRequest[1]
    /\ \A r \in Slots \ Written :
         requests[r].reply = None \/ requests[r].reply[1].status # 200
    /\ Len(notesRequests) = Cardinality(Written)

\* Every record of the log is still there, unchanged, after a step.
RecordsKept ==
    \A i \in 1..Len(notesRequests) :
        /\ i <= Len(notesRequests')
        /\ notesRequests'[i] = notesRequests[i]

\* C9: every accepted request creates exactly one record, written after its document
\* was generated, and a record once written is never changed or removed.
C9_WrittenOnceAndKept == [](OneRecordEach) /\ [][RecordsKept]_vars

\* Two requests were accepted and answered, and the log holds their two records.
C9_Witness ==
    /\ \A r \in Slots : requests[r].pc = "done" /\ requests[r].reply[1].status = 200
    /\ Len(notesRequests) = MaxPosts
    /\ notesRequests[1].subject # notesRequests[2].subject

\* The records createNotesRequest has returned with the identifier id.
ReturnedWith(id) ==
    { requests[r].notesRequest[1] : r \in { w \in Written : requests[w].notesRequest[1].id = id } }

\* getNotesRequest gives the record returned with an identifier, and undefined for an
\* identifier no record call returned.
GetByIdExact ==
    \A id \in Ids :
        IF ReturnedWith(id) = {}
        THEN getNotesRequest(notesRequests, id) = None
        ELSE /\ Cardinality(ReturnedWith(id)) = 1
             /\ getNotesRequest(notesRequests, id) \in { Some(rec) : rec \in ReturnedWith(id) }

\* GET /api/notes/:id answers 200 with that record, or 404.
GetRouteExact ==
    (lastRead' # lastRead /\ lastRead'[1].route = "notes") =>
        IF ReturnedWith(lastRead'[1].id) = {}
        THEN lastRead'[1].status = 404
        ELSE /\ lastRead'[1].status = 200
             /\ lastRead'[1].body \in ReturnedWith(lastRead'[1].id)

\* C10: getById returns, for every identifier record has returned, the record with the
\* fields that were recorded, and NotFound (404 at the route) for every other one.
C10_GetById == [](GetByIdExact) /\ [][GetRouteExact]_vars

\* The second of two records was read back by its identifier, and it is the one
\* written for the request without a chapter name.
C10_Witness ==
    /\ Len(notesRequests) = 2
    /\ lastRead # None
    /\ lastRead[1].route = "notes"
    /\ lastRead[1].status = 200
    /\ lastRead[1].body = notesRequests[2]
    /\ lastRead[1].body.id = 2
    /\ lastRead[1].body.subject # notesRequests[1].subject

(***************************************************************************)
(* Failures, scenarios and well-typed requests                             *)
(***************************************************************************)

\* The answer the handler gives when the notes could not be generated.
GenerationFailureReply == Reply(500, "Failed to generate notes. Please try again.")

\* The request's document was generated, its write failed and it was answered.
WriteFailed(r) ==
    /\ requests[r].pc = "done"
    /\ requests[r].notes # None
    /\ requests[r].notesRequest = None

\* C11: when the write to the log fails after the document was generated, the answer
\* differs from the answer for a failure to generate the notes.
C11_WriteFailureDistinct ==
    \A r \in Slots : WriteFailed(r) => requests[r].reply[1] # GenerationFailureReply

\* C12: generateDiamondNotes completes for every request and returns a document with
\* a title, at least one heading, a non-empty conclusion and a keyword list.
C12_GenerationTotal ==
    args # None =>
        LET document == generateDiamondNotes(args[1].className, args[1].subject,
                                             args[1].chapterName, None, args[1].language)
        IN /\ DOMAIN document = { "chapterTitle", "headings", "conclusion", "keywords" }
           /\ Len(document.chapterTitle) >= 0
           /\ Len(document.headings) >= 1
           /\ Len(document.conclusion) >= 1
           /\ Len(document.keywords) >= 0
           /\ notes \in { None, Some(document) }

\* A document was generated for the empty subject in English without a chapter name.
C12_Witness ==
    /\ Generated
    /\ args[1].subject = ""
    /\ args[1].chapterName = None
    /\ args[1].language = "english"
    /\ Len(notes[1].conclusion) >= 1

Scenario1 ==
    /\ args # None
    /\ args[1] = [ className |-> "10", subject |-> "Mathematics",
                   chapterName |-> Some("Linear Equations"), language |-> "english" ]

\* C13: class 10, "Mathematics", "Linear Equations", English gives the title "Linear
\* Equations", 4 headings, the Mathematics heading at 2 and keywords that include
\* "Linear Equations", "Mathematics", "Class 10" and "Formula".
C13_Scenario1 ==
    (Scenario1 /\ notes # None) =>
        LET kw == { notes[1].keywords[i] : i \in 1..Len(notes[1].keywords) }
        IN /\ notes[1].chapterTitle = "Linear Equations"
           /\ Len(notes[1].headings) = 4
           /\ notes[1].headings[2].title = "Key Formulas and Principles"
           /\ { "Linear Equations", "Mathematics", "Class 10", "Formula" } \subseteq kw

\* The document of scenario 1 has been generated.
C13_Witness ==
    /\ Scenario1
    /\ notes # None
    /\ notes[1].headings[2].number = 2
    /\ notes[1].keywords[8] = "Formula"

\* A text built from a Hindi template literal.
IsHindiText(s) == includes(s, "hi:L")

HindiTitlePrefix == "hi:L39: "

\* C14 as stated: the Hindi document of a request has the shape of the English one
\* (headings, numbers, bullet points per heading, keywords), all its heading titles,
\* bullet points, conclusion and keyword literals are Hindi text, and its title is
\* the chapter title behind the Hindi prefix.
C14_Original ==
    (Generated /\ args[1].language = "hindi") =>
        LET hi == notes[1]
            en == generateDiamondNotes(args[1].className, args[1].subject,
                                       args[1].chapterName, None, "english")
        IN /\ Len(hi.headings) = Len(en.headings)
           /\ \A i \in 1..Len(hi.headings) :
                /\ hi.headings[i].number = en.headings[i].number
                /\ Len(hi.headings[i].bulletPoints) = Len(en.headings[i].bulletPoints)
                /\ IsHindiText(hi.headings[i].title)
                /\ \A j \in 1..Len(hi.headings[i].bulletPoints) :
                     IsHindiText(hi.headings[i].bulletPoints[j])
           /\ Len(hi.keywords) = Len(en.keywords)
           /\ IsHindiText(hi.conclusion)
           /\ \A i \in 3..Len(hi.keywords) : IsHindiText(hi.keywords[i])
           /\ hi.chapterTitle = HindiTitlePrefix \o chapterTitleOf(args[1].chapterName)

\* C14 amended: the Hindi document has the shape of the English one, all its heading
\* titles, bullet points and its conclusion are Hindi text, its title is the chapter
\* title behind the Hindi prefix, and its keyword list is that of the English one.
C14_HindiDocument ==
    (Generated /\ args[1].language = "hindi") =>
        LET hi == notes[1]
            en == generateDiamondNotes(args[1].className, args[1].subject,
                                       args[1].chapterName, None, "english")
        IN /\ Len(hi.headings) = Len(en.headings)
           /\ \A i \in 1..Len(hi.headings) :
                /\ hi.headings[i].number = en.headings[i].number
                /\ Len(hi.headings[i].bulletPoints) = Len(en.headings[i].bulletPoints)
                /\ IsHindiText(hi.headings[i].title)
                /\ ~IsHindiText(en.headings[i].title)
                /\ \A j \in 1..Len(hi.headings[i].bulletPoints) :
                     IsHindiText(hi.headings[i].bulletPoints[j])
           /\ IsHindiText(hi.conclusion)
           /\ hi.keywords = en.keywords
           /\ hi.chapterTitle = HindiTitlePrefix \o chapterTitleOf(args[1].chapterName)

\* The Hindi document of scenario 1 has been generated.
C14_Witness ==
    /\ Generated
    /\ args[1] = [ className |-> "10", subject |-> "Mathematics",
                   chapterName |-> Some("Linear Equations"), language |-> "hindi" ]
    /\ notes[1].chapterTitle = "hi:L39: Linear Equations"
    /\ notes[1].headings[2].title = "hi:L76"

\* C15: a request with a document and no chapter title gets the placeholder title in
\* its language: the English placeholder for English, a Hindi one behind the Hindi
\* prefix for Hindi.
C15_PlaceholderInLanguage ==
    \A r \in Slots :
        ( /\ requests[r].notes # None
          /\ requests[r].body[1].chapterName = None
          /\ (requests[r].body[1].file # None \/ requests[r].body[1].pdfContent # None) )
        => LET title == requests[r].notes[1].chapterTitle
           IN IF requests[r].data[1].language = "hindi"
              THEN /\ SubSeq(title, 1, Len(HindiTitlePrefix)) = HindiTitlePrefix
                   /\ IsHindiText(SubSeq(title, Len(HindiTitlePrefix) + 1, Len(title)))
              ELSE title = "Chapter from PDF"

\* C16: the introduction has 4 bullet points and each of the other three headings 5,
\* so every heading has between 2 and 6.
C16_BulletCounts ==
    Generated =>
        LET hs == notes[1].headings
        IN /\ Len(hs) = 4
           /\ Len(hs[1].bulletPoints) = 4
           /\ \A i \in 2..4 : Len(hs[i].bulletPoints) = 5
           /\ \A i \in 1..Len(hs) : Len(hs[i].bulletPoints) \in 2..6

\* A Hindi document for a subject of no category has its 4 and 5 bullet points.
C16_Witness ==
    /\ Generated
    /\ args[1].subject = "English"
    /\ args[1].language = "hindi"
    /\ Len(notes[1].headings[1].bulletPoints) = 4
    /\ Len(notes[1].headings[3].bulletPoints) = 5

\* C17: a subject that contains "math" in any letter case gets the Mathematics
\* headings, also when it does not contain "mathematics".
C17_MathIsMathematics ==
    (Generated /\ includes(toLowerCase(args[1].subject), "math")) =>
        SectionCategories = { "Mathematics" }

\* The fields of a validated request that generation is given, the document aside.
RequestFields(r) ==
    [ className |-> requests[r].data[1].className,
      subject |-> requests[r].data[1].subject,
      chapterName |-> requests[r].data[1].chapterName,
      language |-> requests[r].data[1].language ]

\* C18: two requests with the same class, subject, chapter name and language get the
\* same document, whatever was requested or written before each of them.
C18_Deterministic ==
    \A r1, r2 \in Slots :
        ( /\ requests[r1].notes # None
          /\ requests[r2].notes # None
          /\ RequestFields(r1) = RequestFields(r2) )
        => requests[r1].notes = requests[r2].notes

\* Two equal requests were answered, the second one written in a later tick, with an
\* equal document of the placeholder title.
C18_Witness ==
    /\ Len(notesRequests) = 2
    /\ notesRequests[1].createdAt < notesRequests[2].createdAt
    /\ \A r \in Slots : requests[r].pc = "done" /\ requests[r].reply[1].status = 200
    /\ RequestFields(1) = RequestFields(2)
    /\ requests[1].data[1].chapterName = None
    /\ notesRequests[1].generatedNotes = notesRequests[2].generatedNotes

ClassLevels == { "1", "2", "3", "4", "5", "6", "7", "8", "9", "10", "11", "12" }

\* C20: every request accepted for generation and every record of the log has a
\* class level from 1 to 12 and a non-empty subject; a request with another class
\* level is not accepted.
C20_ClassInRange ==
    /\ \A r \in Slots :
         requests[r].notes # None =>
            /\ requests[r].data[1].className \in ClassLevels
            /\ Len(requests[r].data[1].subject) >= 1
    /\ \A i \in 1..Len(notesRequests) :
         /\ notesRequests[i].className \in ClassLevels
         /\ Len(notesRequests[i].subject) >= 1
    /\ \A r \in Slots :
         ( /\ requests[r].body # None
           /\ requests[r].body[1].className \notin { Some(c) : c \in ClassLevels } )
         => requests[r].notes = None


(***************************************************************************)
(* The request log under concurrent requests                               *)
(***************************************************************************)

\* The record calls of different requests returned different identifiers, and the
\* log's keys are pairwise different.
DistinctIds ==
    /\ \A r1, r2 \in Written :
         r1 # r2 => requests[r1].notesRequest[1].id # requests[r2].notesRequest[1].id
    /\ \A i, j \in 1..Len(notesRequests) :
         i # j => notesRequests[i].id # notesRequests[j].id

\* A step in which some request's record call runs.
IsRecordCall == \E r \in Slots : requests[r].pc = "generated" /\ requests'[r].pc = "stored"

\* A record call adds one entry under a key the log did not hold and leaves every
\* earlier entry in place.
NoOverwrite ==
    IsRecordCall =>
        /\ Len(notesRequests') = Len(notesRequests) + 1
        /\ \A i \in 1..Len(notesRequests) :
             /\ notesRequests'[i] = notesRequests[i]
             /\ notesRequests'[Len(notesRequests')].id # notesRequests[i].id

\* C21: across any interleaving of concurrent record calls no two stored records
\* share an identifier and no record call overwrites a stored record.
C21_CollisionFree == [](DistinctIds) /\ [][NoOverwrite]_vars

\* Two requests were in flight together: both records are written and neither
\* request is answered yet, the second slot's record call having run first.
C21_Witness ==
    /\ requests[1].pc = "stored"
    /\ requests[2].pc = "stored"
    /\ requests[2].notesRequest[1].id = 1
    /\ requests[1].notesRequest[1].id = 2
    /\ Len(notesRequests) = 2


\* The fields of a stored record.
StoredFields ==
    { "id", "className", "subject", "chapterName", "language", "generatedNotes",
      "createdAt" }

\* The text forms in which a request carries its source document: the base64 text
\* of the uploaded file and the pdfContent field of the body.
SourceDocumentOf(body) ==
    { base64(f.buffer) : f \in { g \in { PdfFile, EmptyPdfFile, TextFile } : body.file = Some(g) } }
        \cup { c \in { base64(PdfFile.buffer) } : body.pdfContent = Some(c) }

\* C22: in every reachable state each stored record holds only the class, subject,
\* chapter name, language, generated document, identifier and creation time, none of
\* them being the source document of the request it was written for.
C22_NoDocumentBytesRetained ==
    /\ \A i \in 1..Len(notesRequests) : DOMAIN notesRequests[i] = StoredFields
    /\ \A r \in Written :
         LET rec == requests[r].notesRequest[1]
         IN \A c \in SourceDocumentOf(requests[r].body[1]) :
               /\ rec.className # c
               /\ rec.subject # c
               /\ rec.language # c
               /\ rec.chapterName # Some(c)
               /\ rec.generatedNotes[1].chapterTitle # c
               /\ rec.generatedNotes[1].conclusion # c
               /\ \A k \in 1..Len(rec.generatedNotes[1].keywords) :
                     rec.generatedNotes[1].keywords[k] # c

\* An upload with a chapter name was accepted: the handler held the file's bytes as
\* pdfContent, and the record is written and answered.
C22_Witness ==
    /\ requests[1].pc = "done"
    /\ requests[1].reply[1].status = 200
    /\ requests[1].body[1].file = Some(PdfFile)
    /\ requests[1].body[1].chapterName = Some("Linear Equations")
    /\ requests[1].data[1].pdfContent = Some(base64(PdfFile.buffer))
    /\ Len(notesRequests) = 1


\* The requests answered with success.
Succeeded == { r \in Slots : requests[r].reply # None /\ requests[r].reply[1].status = 200 }

\* The answer of request r names a stored record that holds the notes of that answer,
\* which are the document the handler generated for r, and the validated request's
\* class, subject, chapter name and language (a chapter name that is absent or empty
\* is stored as null).
ResolvesToOwn(r) ==
    LET found == getNotesRequest(notesRequests, requests[r].reply[1].id)
    IN /\ found # None
       /\ found[1].id = requests[r].reply[1].id
       /\ found[1].generatedNotes = Some(requests[r].reply[1].notes)
       /\ found[1].className = requests[r].data[1].className
       /\ found[1].subject = requests[r].data[1].subject
       /\ found[1].chapterName = orNull(requests[r].data[1].chapterName)
       /\ found[1].language = requests[r].data[1].language
       /\ requests[r].reply[1].notes = requests[r].notes[1]

\* C23: every successful POST returns an id that identifies a stored record with that
\* response's notes and the validated request's fields, and under any interleaving of
\* concurrent requests different callers get different ids.
C23_IdResolvesToOwnDocument ==
    /\ \A r \in Succeeded : ResolvesToOwn(r)
    /\ \A r1, r2 \in Succeeded : r1 # r2 => requests[r1].reply[1].id # requests[r2].reply[1].id

\* Two overlapping requests for different documents were answered in the order
\* opposite to their record calls: the first slot holds the id written second.
C23_Witness ==
    /\ Succeeded = { 1, 2 }
    /\ requests[1].reply[1].id = 2
    /\ requests[2].reply[1].id = 1
    /\ requests[1].reply[1].notes # requests[2].reply[1].notes
    /\ notesRequests[1].subject = kwVigyan
    /\ notesRequests[2].subject = "Mathematics"


\* The request passed the upload filter, so the handler ran.
Handled(body) == body.file = None \/ fileFilter(body.file[1])

\* The object handed to the schema has a missing or empty class, a missing or empty
\* subject, or a language outside the enum.
FailsSchema(body) ==
    LET requestData == requestDataOf(body)
    IN \/ requestData.className \in { None, Some("") }
       \/ requestData.subject \in { None, Some("") }
       \/ requestData.language \notin { Some("english"), Some("hindi") }

\* A handled request that fails the schema is answered 400 "Validation error" in the
\* step that receives it, and has no record.
SchemaFailureAnswered ==
    \A r \in Slots :
        ( /\ requests[r].body # None
          /\ Handled(requests[r].body[1])
          /\ FailsSchema(requests[r].body[1]) )
        => /\ requests[r].pc = "done"
           /\ requests[r].reply = Some(Reply(400, "Validation error"))
           /\ requests[r].notes = None
           /\ requests[r].notesRequest = None

\* Every record of the log was written for a request that is answered with success,
\* or is about to be.
RecordsOfAccepted ==
    \A i \in 1..Len(notesRequests) :
        \E r \in Slots :
            /\ requests[r].notesRequest = Some(notesRequests[i])
            /\ requests[r].pc \in { "stored", "done" }
            /\ requests[r].reply # None => requests[r].reply[1].status = 200

\* A step that answers a request with an error leaves the log as it was, and the log
\* changes only by the record call of a validated request.
LogChangesOnlyOnSuccess ==
    /\ \A r \in Slots :
         ( /\ requests'[r].reply # requests[r].reply
           /\ requests'[r].reply[1].status # 200 )
         => notesRequests' = notesRequests
    /\ notesRequests' # notesRequests =>
         \E r \in Slots :
            /\ requests[r].pc = "generated"
            /\ requests[r].data # None
            /\ requests'[r].pc = "stored"
            /\ notesRequests' = Append(notesRequests, requests'[r].notesRequest[1])

\* C24: a POST that fails schema validation (missing or empty class, missing or empty
\* subject, language outside the enum) answers 400 with a validation error and leaves
\* the log unchanged; a record is added only by a request that answers with success.
C24_SchemaFailureLeavesLog ==
    [](SchemaFailureAnswered /\ RecordsOfAccepted) /\ [][LogChangesOnlyOnSuccess]_vars

\* The log held the record of the second request when the first, asking for French,
\* was answered 400.
C24_Witness ==
    /\ Len(notesRequests) = 1
    /\ requests[2].notesRequest = Some(notesRequests[1])
    /\ requests[1].body # None
    /\ requests[1].body[1].language = Some("french")
    /\ requests[1].body[1].className = Some("10")
    /\ requests[1].body[1].subject = Some("Mathematics")
    /\ requests[1].reply = Some(Reply(400, "Validation error"))


\* The stored records, as a set.
StoredRecords(entries) == { entries[i] : i \in 1..Len(entries) }

\* A step of one of the two GET routes: the last read is a new one.
IsRead == lastRead' # lastRead

\* A read leaves the stored records and their fields as they were, and
\* GET /api/recent-notes answers with at most RecentLimit of them.
ReadLeavesLog ==
    IsRead =>
        /\ StoredRecords(notesRequests') = StoredRecords(notesRequests)
        /\ Len(notesRequests') = Len(notesRequests)
        /\ lastRead'[1].route = "recent-notes" =>
             /\ Len(lastRead'[1].body) <= RecentLimit
             /\ StoredRecords(lastRead'[1].body) \subseteq StoredRecords(notesRequests)
        /\ (lastRead'[1].route = "notes" /\ lastRead'[1].status = 200) =>
             lastRead'[1].body \in StoredRecords(notesRequests)

\* The storage calls return stored records only, getRecentNotesRequests no more than
\* its limit.
StorageReadsExact ==
    /\ \A k \in 0..MaxLimit :
         LET recent == getRecentNotesRequests(notesRequests, k)
         IN /\ Len(recent) <= k
            /\ StoredRecords(recent) \subseteq StoredRecords(notesRequests)
    /\ \A id \in Ids :
         getNotesRequest(notesRequests, id) \in
            { None } \cup { Some(rec) : rec \in StoredRecords(notesRequests) }

\* C25: GET /api/recent-notes (at most 5 records) and GET /api/notes/:id, and the
\* storage calls behind them, leave the log unchanged: the set of stored records and
\* every record's fields are the same before and after.
C25_ReadsLeaveLog == [](StorageReadsExact) /\ [][ReadLeavesLog]_vars

\* The recent-notes route answered with the two stored records, newest first, which
\* is not the order of the log, and the log still holds them oldest first.
C25_Witness ==
    /\ Len(notesRequests) = 2
    /\ notesRequests[1].createdAt < notesRequests[2].createdAt
    /\ lastRead # None
    /\ lastRead[1].route = "recent-notes"
    /\ lastRead[1].body = << notesRequests[2], notesRequests[1] >>


(***************************************************************************)
(* Properties of the Dashboard form (SpecForm)                             *)
(***************************************************************************)

\* The form holds a non-blank chapter name together with a selected file.
HoldsBoth == trim(dashboard.chapterName) # "" /\ dashboard.selectedFile # None

\* The form never holds both, and the two components agree on the selected file.
ChapterOrFile ==
    /\ ~HoldsBoth
    /\ dashboard.selectedFile = fileUpload.selectedFile

\* Selecting a file clears the chapter name and disables the chapter input, which
\* then keeps its value; a non-blank chapter name keeps the selection as it is,
\* whatever is clicked, chosen or dropped.
EitherInputLocksOther ==
    /\ (dashboard'.selectedFile # dashboard.selectedFile /\ dashboard'.selectedFile # None)
          => /\ ~disabled
             /\ dashboard'.chapterName = ""
             /\ chapterInputDisabled'
    /\ chapterInputDisabled => dashboard'.chapterName = dashboard.chapterName
    /\ disabled
          => /\ dashboard'.selectedFile = dashboard.selectedFile
             /\ fileUpload'.selectedFile = fileUpload.selectedFile
             /\ fileUpload'.onFileSelectCalls = fileUpload.onFileSelectCalls

\* A request is sent only with a chapter name or a file in the form, and carries it.
NothingSentWithNeither ==
    (dashboard.pending = None /\ dashboard'.pending # None)
        => /\ ~(dashboard.chapterName = "" /\ dashboard.selectedFile = None)
           /\ dashboard'.pending[1].chapterName # None
                 \/ dashboard'.pending[1].pdf # None

\* C26: after any sequence of typing a chapter name, selecting or dropping a file and
\* removing a file, the form never holds both a non-blank chapter name and a selected
\* file: selecting a file clears the chapter name and disables the chapter input, a
\* non-blank chapter name disables file selection, and submitting with neither a
\* chapter name nor a file sends no request.
C26_ChapterXorFile ==
    [](ChapterOrFile) /\ [][EitherInputLocksOther /\ NothingSentWithNeither]_vars

\* A request with a chapter name is in flight, and since it was sent the chapter name
\* was erased and a file selected.
C26_Witness ==
    /\ dashboard.pending # None
    /\ dashboard.pending[1].chapterName = Some("Linear Equations")
    /\ dashboard.pending[1].pdf = None
    /\ dashboard.selectedFile = Some(SmallFile)
    /\ dashboard.chapterName = ""

\* handleFileSelect on the current components: a file above maxSize changes neither
\* the selection nor the parent and calls onFileSelect not at all; a file of at most
\* maxSize becomes the selection and the argument of one onFileSelect call.
HandleFileSelectExact ==
    \A file \in Files :
        LET after == handleFileSelect(fileUpload, dashboard, Some(file))
        IN IF file.size > maxSize
           THEN /\ after.fileUpload.selectedFile = fileUpload.selectedFile
                /\ after.fileUpload.onFileSelectCalls = fileUpload.onFileSelectCalls
                /\ after.dashboard = dashboard
           ELSE /\ after.fileUpload.selectedFile = Some(file)
                /\ after.fileUpload.onFileSelectCalls = fileUpload.onFileSelectCalls + 1
                /\ after.fileUpload.onFileSelectArg = Some(file)
                /\ after.dashboard.selectedFile = Some(file)

\* In a step of FileUpload: a rejected offer (an alert) leaves the selection and the
\* parent alone; the selection changes only together with one onFileSelect call, whose
\* argument is the new selection, a file of at most maxSize or null.
OffersExact ==
    /\ fileUpload'.alerts # fileUpload.alerts
          => /\ fileUpload'.selectedFile = fileUpload.selectedFile
             /\ fileUpload'.onFileSelectCalls = fileUpload.onFileSelectCalls
             /\ dashboard' = dashboard
    /\ fileUpload'.selectedFile # fileUpload.selectedFile
          => fileUpload'.onFileSelectCalls # fileUpload.onFileSelectCalls
    /\ fileUpload'.onFileSelectCalls # fileUpload.onFileSelectCalls
          => /\ fileUpload'.onFileSelectCalls = fileUpload.onFileSelectCalls + 1
             /\ fileUpload'.selectedFile = fileUpload'.onFileSelectArg
             /\ dashboard'.selectedFile = fileUpload'.onFileSelectArg
             /\ fileUpload'.onFileSelectArg # None
                   => fileUpload'.onFileSelectArg[1].size <= maxSize

\* C27: in FileUpload a file larger than maxSize, offered by input change or drop, is
\* rejected, the selection unchanged and the parent not notified; a file of at most
\* maxSize becomes the selection and the parent is notified with it; Remove resets
\* the selection to none and notifies the parent with null.
C27_MaxSize == [](HandleFileSelectExact) /\ [][OffersExact]_vars

\* A file of exactly maxSize is the selection the parent was last notified of, after
\* an earlier selection was removed and a larger file was refused.
C27_Witness ==
    /\ fileUpload.alerts = 1
    /\ fileUpload.selectedFile = Some(LimitFile)
    /\ fileUpload.onFileSelectArg = Some(LimitFile)
    /\ fileUpload.onFileSelectCalls = 3
    /\ dashboard.selectedFile = Some(LimitFile)

\* Class numbers getSubjectsForClass is asked about.
ClassNumbers == (0 - 2)..15

NoDuplicates(s) == \A i, j \in 1..Len(s) : i # j => s[i] # s[j]

\* getSubjectsForClass: a duplicate-free list for 1 to 12, the empty list otherwise.
SubjectListsExact ==
    \A n \in ClassNumbers :
        IF n \in 1..12
        THEN NoDuplicates(getSubjectsForClass(n)) /\ Len(getSubjectsForClass(n)) > 0
        ELSE getSubjectsForClass(n) = << >>

\* The subject list is the one of the selected class, and the selected subject is
\* empty or one of its members.
SubjectOfSelectedClass ==
    /\ dashboard.subjects =
          IF dashboard.className = "" THEN << >>
          ELSE getSubjectsForClass(parseInt(dashboard.className))
    /\ \/ dashboard.subject = ""
       \/ \E i \in 1..Len(dashboard.subjects) : dashboard.subjects[i] = dashboard.subject

\* A change of the selected class empties the selected subject and sets the list.
ClassChangeResets ==
    dashboard'.className # dashboard.className
        => /\ dashboard'.subject = ""
           /\ dashboard'.subjects = getSubjectsForClass(parseInt(dashboard'.className))

\* C28: whenever the selected class changes the selected subject is reset to empty and
\* the subject list becomes getSubjectsForClass(class), so the selected subject is
\* always empty or a member of the list of the selected class; getSubjectsForClass
\* returns a duplicate-free list for classes 1 to 12 and the empty list otherwise.
C28_SubjectFollowsClass ==
    [](SubjectListsExact /\ SubjectOfSelectedClass) /\ [][ClassChangeResets]_vars

\* A request for class 12 and a subject only that class offers is in flight, and the
\* form now holds class 9 with a subject of its own list.
C28_Witness ==
    /\ dashboard.pending # None
    /\ dashboard.pending[1].className = "12"
    /\ dashboard.pending[1].subject = "Psychology"
    /\ dashboard.className = "9"
    /\ dashboard.subject = "Economics"

====
